---- MODULE Spec2Model ----
(***************************************************************************)
(* Model of schedule_parser.py: build_comprehensive_data and the helpers   *)
(* it calls (load_json_file, format_time, get_service_type).               *)
(*                                                                         *)
(* JSON documents are loosely typed, so every JSON value is a record with  *)
(* one tag field: [str |-> s], [int |-> n], [bool |-> b], [null |-> TRUE], *)
(* [arr |-> <<v1, ...>>], [obj |-> << <<k1, v1>>, ... >>].  An object is   *)
(* the sequence of its key/value pairs in document order, because Python   *)
(* dicts iterate in insertion order.  [raise |-> TRUE] stands for an       *)
(* exception escaping the expression that was evaluated.                   *)
(***************************************************************************)
EXTENDS Integers, Sequences, FiniteSets, TLC

VARIABLES
    app_startup_data,   \* argument of build_comprehensive_data
    staff,              \* result['staff']: staff id -> profile
    schedules,          \* result['schedules']: date -> staff id -> DaySchedule
    calendar_data,      \* the loaded service catalog document
    schedule_data,      \* the document loaded by the current loop iteration
    nread,              \* number of schedule files the loop has consumed
    pc,                 \* position in build_comprehensive_data
    lastByDate,         \* history: date -> last snapshot processed under it
    nByDate,            \* history: date -> number of snapshots processed under it
    nskipped            \* history: number of snapshots skipped as unloadable

vars == <<app_startup_data, staff, schedules, calendar_data, schedule_data,
          nread, pc, lastByDate, nByDate, nskipped>>

\* Largest number of schedule files in schedule_files.
MaxFiles == 3

-----------------------------------------------------------------------------
(* JSON / Python values *)

S(x) == [str |-> x]
N(i) == [int |-> i]
B(b) == [bool |-> b]
A(s) == [arr |-> s]
O(pairs) == [obj |-> pairs]
None == [null |-> TRUE]
Raise == [raise |-> TRUE]
EmptyDict == O(<<>>)
EmptyList == A(<<>>)

IsStr(v) == "str" \in DOMAIN v
IsInt(v) == "int" \in DOMAIN v
IsBool(v) == "bool" \in DOMAIN v
IsArr(v) == "arr" \in DOMAIN v
IsObj(v) == "obj" \in DOMAIN v
IsNone(v) == "null" \in DOMAIN v
Raised(v) == "raise" \in DOMAIN v

Keys(d) == {d.obj[i][1] : i \in 1..Len(d.obj)}

\* dict.get(key, default); calling .get on anything but a dict raises
\* AttributeError.
Get(d, k, default) ==
    IF ~IsObj(d) THEN Raise
    ELSE IF k \in Keys(d)
         THEN d.obj[CHOOSE i \in 1..Len(d.obj) : d.obj[i][1] = k][2]
         ELSE default

\* dict.get with a key that is itself a JSON value: the keys of a parsed JSON
\* object are strings, so only a string key can be found.
GetByValue(d, key, default) ==
    IF ~IsObj(d) THEN Raise
    ELSE IF IsStr(key) THEN Get(d, key.str, default)
    ELSE default

\* Python truthiness (if x / not x / x or y).
Truthy(v) ==
    IF IsBool(v) THEN v.bool
    ELSE IF IsStr(v) THEN v.str # ""
    ELSE IF IsInt(v) THEN v.int # 0
    ELSE IF IsArr(v) THEN Len(v.arr) > 0
    ELSE IF IsObj(v) THEN Len(v.obj) > 0
    ELSE FALSE

Digits == <<"0", "1", "2", "3", "4", "5", "6", "7", "8", "9">>

RECURSIVE IntStr(_)
IntStr(i) ==
    IF i < 10 THEN Digits[i + 1]
    ELSE IntStr(i \div 10) \o Digits[(i % 10) + 1]

\* str(v), also the conversion an f-string applies to a substituted value.
PyStr(v) ==
    IF IsStr(v) THEN v.str
    ELSE IF IsInt(v) THEN IntStr(v.int)
    ELSE IF IsNone(v) THEN "None"
    ELSE IF IsBool(v) THEN (IF v.bool THEN "True" ELSE "False")
    ELSE IF IsArr(v) THEN "[...]"
    ELSE "{...}"

\* f"{a} {b}".strip() for a and b without surrounding whitespace: the
\* separating blank survives only between two non-empty strings.
JoinStrip(a, b) ==
    IF a = "" THEN b
    ELSE IF b = "" THEN a
    ELSE a \o " " \o b

\* Iterating a value in a for loop: a list yields its elements, a dict its
\* keys, a string its characters (modelled as one string element, enough to
\* tell that the elements are strings); anything else raises TypeError.
Iter(v) ==
    IF IsArr(v) THEN [ok |-> v.arr]
    ELSE IF IsObj(v) THEN [ok |-> [i \in 1..Len(v.obj) |-> S(v.obj[i][1])]]
    ELSE IF IsStr(v) THEN [ok |-> IF v.str = "" THEN <<>> ELSE <<v>>]
    ELSE Raise

-----------------------------------------------------------------------------
(* load_json_file *)

NotFound == [missing |-> TRUE]
InvalidJSON == [invalid |-> TRUE]

\* A file is NotFound, InvalidJSON, or holds a JSON value.
load_json_file(file) ==
    IF "missing" \in DOMAIN file \/ "invalid" \in DOMAIN file THEN EmptyDict
    ELSE file

-----------------------------------------------------------------------------
(* format_time *)

\* datetime.fromisoformat(time_str.replace('T', ' ')) on the timestamps of
\* the model: the fields of each string that parses.  Every other string
\* makes fromisoformat raise ValueError.
IsoParse ==
    ("2025-07-26T09:00:00" :> [day |-> 26, hour |-> 9, minute |-> 0, second |-> 0]) @@
    ("2025-07-26T09:00:30" :> [day |-> 26, hour |-> 9, minute |-> 0, second |-> 30]) @@
    ("2025-07-26T10:30:00" :> [day |-> 26, hour |-> 10, minute |-> 30, second |-> 0]) @@
    ("2025-07-26 17:00:00" :> [day |-> 26, hour |-> 17, minute |-> 0, second |-> 0]) @@
    ("2025-07-27T08:15:00" :> [day |-> 27, hour |-> 8, minute |-> 15, second |-> 0]) @@
    ("2025-07-27T17:00:00" :> [day |-> 27, hour |-> 17, minute |-> 0, second |-> 0])

Pad2(n) == Digits[(n \div 10) + 1] \o Digits[(n % 10) + 1]

\* dt.strftime('%H:%M')
StrfHM(dt) == Pad2(dt.hour) \o ":" \o Pad2(dt.minute)

\* A non-string argument has no .replace: the AttributeError is caught by
\* the bare except and the argument is returned as it is.
format_time(time_str) ==
    IF IsStr(time_str) /\ time_str.str \in DOMAIN IsoParse
    THEN S(StrfHM(IsoParse[time_str.str]))
    ELSE time_str

-----------------------------------------------------------------------------
(* get_service_type *)

\* A faulty variant of the definition below: the service id is looked up as
\* it is, without str().
get_service_type_no_str(service_id, calendar) ==
    LET services == Get(Get(calendar, "services", EmptyDict), "servicesById", EmptyDict)
        service == IF IsStr(service_id) THEN Get(services, service_id.str, EmptyDict)
                   ELSE EmptyDict
    IN  Get(service, "name", S("Unknown Service"))

get_service_type(service_id, calendar) ==
    LET services == Get(Get(calendar, "services", EmptyDict), "servicesById", EmptyDict)
        service == Get(services, PyStr(service_id), EmptyDict)
    IN  Get(service, "name", S("Unknown Service"))

-----------------------------------------------------------------------------
(* build_comprehensive_data: staff directory *)

\* app_startup_data.get('auth', {}).get('sharedData', {})...get('byId', {})
StaffData(app) ==
    Get(Get(Get(Get(Get(app, "auth", EmptyDict), "sharedData", EmptyDict),
                "selectors", EmptyDict), "staff", EmptyDict), "byId", EmptyDict)

\* A faulty variant of the definition below: a staff record without the flag
\* counts as a service provider.
IsServiceProviderDefaultTrue(staff_info) ==
    Truthy(Get(staff_info, "serviceProvider", B(TRUE)))

\* if staff_info.get('serviceProvider', False)
IsServiceProvider(staff_info) ==
    Truthy(Get(staff_info, "serviceProvider", B(FALSE)))

\* x or ''
OrEmpty(v) == IF Truthy(v) THEN v ELSE S("")

StaffProfile(staff_id, staff_info) ==
    LET first_name == Get(staff_info, "firstName", S("Unknown"))
        last_name == OrEmpty(Get(staff_info, "lastName", S("")))
        full_name == JoinStrip(PyStr(first_name), PyStr(last_name))
    IN  [id |-> staff_id,
         name |-> S(full_name),
         email |-> Get(staff_info, "email", S("No email"))]

\* The loop over staff_data.items(): [ok |-> result['staff']], or Raise when
\* staff_data or one of its records is not a dict.
StaffDirectory(staff_data) ==
    IF ~IsObj(staff_data) THEN Raise
    ELSE IF \E k \in Keys(staff_data) : ~IsObj(Get(staff_data, k, None)) THEN Raise
    ELSE [ok |-> [k \in {j \in Keys(staff_data) :
                            IsServiceProvider(Get(staff_data, j, None))}
                  |-> StaffProfile(k, Get(staff_data, k, None))]]

-----------------------------------------------------------------------------
(* build_comprehensive_data: one staff member's shifts *)

ShiftRecord(shift) ==
    [start |-> format_time(Get(shift, "startAtLocal", S(""))),
     end |-> format_time(Get(shift, "endAtLocal", S(""))),
     location_id |-> Get(shift, "locationId", N(1))]

\* A faulty variant of the definition below: the shifts of the staff member's
\* first date are taken, whatever the snapshot's date.
DayShiftsAnyDate(shifts_data, staff_id, date) ==
    LET staff_shifts == Get(shifts_data, staff_id, EmptyDict)
    IN  IF ~IsObj(staff_shifts) THEN Raise
        ELSE IF Len(staff_shifts.obj) = 0 THEN EmptyList
        ELSE staff_shifts.obj[1][2]

\* shifts_data.get(staff_id, {}).get(date, [])
DayShifts(shifts_data, staff_id, date) ==
    GetByValue(Get(shifts_data, staff_id, EmptyDict), date, EmptyList)

\* The loop over day_shifts: [ok |-> staff_schedule['shifts']] or Raise.
StaffShifts(shifts_data, staff_id, date) ==
    LET day_shifts == DayShifts(shifts_data, staff_id, date)
        it == IF Raised(day_shifts) THEN Raise ELSE Iter(day_shifts)
    IN  IF Raised(it) THEN Raise
        ELSE IF \E i \in 1..Len(it.ok) : ~IsObj(it.ok[i]) THEN Raise
        ELSE [ok |-> [i \in 1..Len(it.ok) |-> ShiftRecord(it.ok[i])]]

-----------------------------------------------------------------------------
(* build_comprehensive_data: one staff member's appointments *)

RECURSIVE Concat(_)
Concat(seqs) == IF seqs = <<>> THEN <<>> ELSE Head(seqs) \o Concat(Tail(seqs))

\* The nested loops over appointments_data.items() and appointment_parts,
\* flattened: [ok |-> the (appointment id, appointment, part) triples in
\* encounter order], or Raise when a loop cannot run.
AllParts(appointments_data) ==
    IF ~IsObj(appointments_data) THEN Raise
    ELSE LET items == appointments_data.obj
             PartsOf(i) == LET parts == Get(items[i][2], "appointmentParts", EmptyList)
                           IN  IF Raised(parts) THEN Raise ELSE Iter(parts)
         IN  IF \E i \in 1..Len(items) : Raised(PartsOf(i)) THEN Raise
             ELSE [ok |-> Concat([i \in 1..Len(items) |->
                             [j \in 1..Len(PartsOf(i).ok) |->
                                 [id |-> items[i][1],
                                  appointment |-> items[i][2],
                                  part |-> PartsOf(i).ok[j]]]])]

\* A faulty variant of the definition below: a part without a staff id is
\* taken to belong to the staff member at hand.
PartMatchesDefaultSelf(part, staff_id) ==
    PyStr(Get(part, "staffId", S(staff_id))) = staff_id

\* str(part.get('staffId', '')) == staff_id
PartMatches(part, staff_id) ==
    PyStr(Get(part, "staffId", S(""))) = staff_id

\* The dict appended for a matching part, or Raise.
AppointmentRecord(appointment, part, calendar) ==
    LET client == Get(appointment, "client", EmptyDict)
        client_name == JoinStrip(PyStr(Get(client, "firstName", S(""))),
                                 PyStr(OrEmpty(Get(client, "lastName", S("")))))
        service_type == get_service_type(Get(part, "serviceId", S("")), calendar)
    IN  IF ~IsObj(client) \/ Raised(service_type) THEN Raise
        ELSE [start |-> format_time(Get(part, "startAtLocal", S(""))),
              end |-> format_time(Get(part, "endAtLocal", S(""))),
              service |-> service_type,
              client_name |-> IF client_name # "" THEN S(client_name)
                              ELSE S("Unknown Client"),
              client_email |-> Get(client, "email", S("")),
              price |-> Get(appointment, "totalPrice", S("0")),
              status |-> Get(appointment, "workflowStatus", S("Unknown"))]

\* Python's str.__lt__ on the strings that occur in the model: the strings
\* in ascending code-point order.
StrOrder ==
    <<"", "08:15", "09:00", "10:30", "17:00",
      "2025-07-26 17:00:00", "2025-07-26T09:00:00", "2025-07-26T09:00:30",
      "2025-07-26T10:30:00", "2025-07-27T08:15:00", "2025-07-27T17:00:00",
      "not-a-time">>

StrRank(s) == CHOOSE i \in 1..Len(StrOrder) : StrOrder[i] = s

StrLess(a, b) == StrRank(a) < StrRank(b)

\* a < b for two sort keys that can be compared.
KeyLess(a, b) == IF IsStr(a) THEN StrLess(a.str, b.str) ELSE a.int < b.int

\* list.sort compares keys with <: all strings or all numbers, else TypeError
\* (a list of fewer than two records is never compared).
Sortable(recs) ==
    \/ Len(recs) < 2
    \/ \A i \in 1..Len(recs) : IsStr(recs[i].start)
    \/ \A i \in 1..Len(recs) : IsInt(recs[i].start)

\* The key list.sort orders by: key=lambda x: x['start']
SortKey(rec) == rec.start

\* Insert rec behind every record that is not greater: the stable order.
RECURSIVE InsertSorted(_, _)
InsertSorted(sorted, rec) ==
    IF sorted = <<>> THEN <<rec>>
    ELSE IF KeyLess(SortKey(rec), SortKey(Head(sorted)))
         THEN <<rec>> \o sorted
         ELSE <<Head(sorted)>> \o InsertSorted(Tail(sorted), rec)

RECURSIVE StableSort(_)
StableSort(recs) ==
    IF recs = <<>> THEN <<>>
    ELSE InsertSorted(StableSort(SubSeq(recs, 1, Len(recs) - 1)), recs[Len(recs)])

\* The appointment loops and the sort for one staff id:
\* [ok |-> staff_schedule['appointments']] or Raise.
StaffAppointments(appointments_data, staff_id, calendar) ==
    LET all == AllParts(appointments_data)
    IN  IF Raised(all) THEN Raise
        ELSE IF \E i \in 1..Len(all.ok) : ~IsObj(all.ok[i].part) THEN Raise
        ELSE LET mine == SelectSeq(all.ok, LAMBDA t : PartMatches(t.part, staff_id))
                 recs == [i \in 1..Len(mine) |->
                             AppointmentRecord(mine[i].appointment, mine[i].part, calendar)]
             IN  IF \E i \in 1..Len(recs) : Raised(recs[i]) THEN Raise
                 ELSE IF ~Sortable(recs) THEN Raise
                 ELSE [ok |-> StableSort(recs)]

-----------------------------------------------------------------------------
(* build_comprehensive_data: one day-snapshot *)

SnapshotDate(doc) == Get(doc, "date", S("Unknown"))

\* A dict key must be hashable: a list or a dict as the date raises TypeError
\* at result['schedules'][date] = {}.
Hashable(v) == ~IsArr(v) /\ ~IsObj(v)

\* A faulty variant of the definition below: only the staff members that have
\* a shift mapping get a DaySchedule.
DayStaffIdsWithShifts(staff_map, shifts_data) ==
    {id \in DOMAIN staff_map : IsObj(shifts_data) /\ id \in Keys(shifts_data)}

\* for staff_id in result['staff'].keys()
DayStaffIds(staff_map, shifts_data) == DOMAIN staff_map

\* The body of the loop over schedule_files for a loaded, non-empty document:
\* [ok |-> result['schedules'][date]] or Raise.
DaySchedules(doc, staff_map, calendar) ==
    LET date == SnapshotDate(doc)
        shifts_data == Get(doc, "shiftsByStaffIdAndDay", EmptyDict)
        appointments_data == Get(Get(doc, "appointments", EmptyDict), "byId", EmptyDict)
        ids == DayStaffIds(staff_map, shifts_data)
        Shifts(id) == StaffShifts(shifts_data, id, date)
        Appts(id) == StaffAppointments(appointments_data, id, calendar)
    IN  IF ~IsObj(doc) \/ Raised(appointments_data) \/ ~Hashable(date) THEN Raise
        ELSE IF \E id \in ids : Raised(Shifts(id)) \/ Raised(Appts(id)) THEN Raise
        ELSE [ok |-> [id \in ids |-> [shifts |-> Shifts(id).ok,
                                      appointments |-> Appts(id).ok]]]

\* A faulty variant of the definition below: the empty document is aggregated
\* like any snapshot.
IsSkippedNever(doc) == FALSE

\* if not schedule_data: continue
IsSkipped(doc) == ~Truthy(doc)

\* m[k] = v on a dict
Put(m, k, v) == (k :> v) @@ m

\* A faulty variant of the definition below: a date that is already present
\* keeps its lists, and the new snapshot's shifts and appointments are
\* appended to them.
StoreDayMerge(old, date, day) ==
    IF date \notin DOMAIN old THEN Put(old, date, day)
    ELSE Put(old, date,
             [id \in DOMAIN day |->
                 [shifts |-> old[date][id].shifts \o day[id].shifts,
                  appointments |-> old[date][id].appointments \o day[id].appointments]])

\* result['schedules'][date] = {} followed by
\* result['schedules'][date][staff_id] = staff_schedule for every staff id.
StoreDay(old, date, day) == Put(old, date, day)

-----------------------------------------------------------------------------
(* Inputs *)

D1 == "2025-07-26"
D2 == "2025-07-27"

StaffRecord(flagField, first, last, email) ==
    O(flagField \o <<<<"firstName", first>>, <<"lastName", last>>>> \o email)

\* The serviceProvider flag: true, false, null, or missing.
Flags ==
    {<<<<"serviceProvider", B(TRUE)>>>>, <<<<"serviceProvider", B(FALSE)>>>>,
     <<<<"serviceProvider", None>>>>, <<>>}

AppDoc(byId) ==
    O(<<<<"auth", O(<<<<"sharedData", O(<<<<"selectors",
        O(<<<<"staff", O(<<<<"byId", byId>>>>)>>>>)>>>>)>>>>)>>>>)

\* Registries of two staff members; "1" has a null last name, "2" no email.
Registries ==
    {O(<<<<"1", StaffRecord(f1, S("Sasha"), None, <<<<"email", S("sasha@example.com")>>>>)>>,
         <<"2", StaffRecord(f2, S("Kim"), S("Lee"), <<>>)>>>>) : f1 \in Flags, f2 \in Flags}

Shift(start, end, loc) ==
    O(<<<<"startAtLocal", S(start)>>, <<"endAtLocal", S(end)>>>> \o loc)

\* Staff "1" works on D1 (two shifts), staff "2" on D2.
ShiftsA ==
    O(<<<<"1", O(<<<<D1, A(<<Shift("2025-07-26T09:00:00", "2025-07-26T10:30:00",
                                   <<<<"locationId", N(2)>>>>),
                             Shift("2025-07-26T10:30:00", "2025-07-26 17:00:00", <<>>)>>)>>>>)>>,
        <<"2", O(<<<<D2, A(<<Shift("2025-07-27T08:15:00", "2025-07-27T17:00:00",
                                   <<<<"locationId", N(3)>>>>)>>)>>>>)>>>>)

Part(staffField, start, end, service) ==
    O(staffField \o <<<<"startAtLocal", S(start)>>, <<"endAtLocal", S(end)>>,
                      <<"serviceId", service>>>>)

Staff(v) == <<<<"staffId", v>>>>

Appointment(clientField, parts, price, status) ==
    O(clientField \o <<<<"appointmentParts", A(parts)>>, <<"totalPrice", S(price)>>,
                       <<"workflowStatus", S(status)>>>>)

Client(first, last, email) ==
    <<<<"client", O(<<<<"firstName", S(first)>>, <<"lastName", last>>,
                     <<"email", S(email)>>>>)>>>>

\* One appointment of two parts, one per staff member; the staff id is a
\* number in one part and a string in the other.
AppointmentsTwoStaff ==
    O(<<<<"a1", Appointment(Client("Jo", None, "jo@example.com"),
                  <<Part(Staff(N(1)), "2025-07-26T09:00:30", "2025-07-26T10:30:00", N(3)),
                    Part(Staff(S("2")), "2025-07-26T09:00:00", "2025-07-26T09:00:30", S("7"))>>,
                  "120.00", "confirmed")>>>>)

\* Parts without a usable staff id (absent, null, empty) beside parts of
\* staff "1" whose starts lie on different days or do not parse.
AppointmentsNoStaff ==
    O(<<<<"a1", Appointment(Client("Jo", S("Doe"), ""),
                  <<Part(<<>>, "2025-07-26T09:00:00", "2025-07-26T09:00:30", N(3)),
                    Part(Staff(None), "2025-07-26T09:00:00", "2025-07-26T09:00:30", N(3)),
                    Part(Staff(N(1)), "2025-07-27T08:15:00", "2025-07-27T17:00:00", N(3))>>,
                  "80.00", "confirmed")>>,
        <<"a2", Appointment(<<>>,
                  <<Part(Staff(S("")), "2025-07-26T09:00:00", "2025-07-26T09:00:30", N(7)),
                    Part(Staff(S("1")), "2025-07-26T10:30:00", "2025-07-26 17:00:00", N(7)),
                    Part(Staff(N(1)), "not-a-time", "", None)>>,
                  "45.00", "cancelled")>>>>)

\* Two appointments of staff "1" that start within the same minute, the
\* later one first in the document; and one part of a staff id that is no
\* staff member.
AppointmentsSameMinute ==
    O(<<<<"a1", Appointment(Client("Jo", None, "jo@example.com"),
                  <<Part(Staff(N(1)), "2025-07-26T09:00:30", "2025-07-26T10:30:00", N(3))>>,
                  "60.00", "confirmed")>>,
        <<"a2", Appointment(Client("Al", S("Ray"), ""),
                  <<Part(Staff(N(1)), "2025-07-26T09:00:00", "2025-07-26T09:00:30", N(3)),
                    Part(Staff(N(9)), "2025-07-26T09:00:00", "2025-07-26T09:00:30", N(3))>>,
                  "30.00", "pending")>>>>)

Snapshot(dateField, shifts, appointments) ==
    O(dateField \o shifts \o appointments)

WithShifts(sh) == <<<<"shiftsByStaffIdAndDay", sh>>>>
WithAppointments(byId) == <<<<"appointments", O(<<<<"byId", byId>>>>)>>>>

\* The contents a snapshot can have besides its date.
DayContents ==
    {<<<<>>, <<>>>>,
     <<WithShifts(ShiftsA), WithAppointments(AppointmentsTwoStaff)>>,
     <<WithShifts(ShiftsA), WithAppointments(AppointmentsNoStaff)>>,
     <<<<>>, WithAppointments(AppointmentsSameMinute)>>}

\* Schedule files: a missing file, an unparsable file, an empty document,
\* a snapshot without a date, and dated snapshots.
ScheduleFiles ==
    {NotFound, InvalidJSON, EmptyDict,
     Snapshot(<<>>, WithShifts(ShiftsA), <<>>)}
    \cup {Snapshot(<<<<"date", S(d)>>>>, c[1], c[2]) : d \in {D1, D2}, c \in DayContents}

Catalog ==
    O(<<<<"services", O(<<<<"servicesById",
        O(<<<<"3", O(<<<<"name", S("Facial")>>>>)>>,
            <<"4", O(<<<<"name", S("Massage")>>>>)>>>>)>>>>)>>>>)

\* calendar-page-metadata.json
CalendarFiles == {NotFound, EmptyDict, Catalog}

-----------------------------------------------------------------------------
(* build_comprehensive_data as a state machine *)

Init ==
    /\ app_startup_data \in {AppDoc(r) : r \in Registries}
    /\ staff = <<>>
    /\ schedules = <<>>
    /\ calendar_data = EmptyDict
    /\ schedule_data = EmptyDict
    /\ nread = 0
    /\ pc = "staff"
    /\ lastByDate = <<>>
    /\ nByDate = <<>>
    /\ nskipped = 0

\* Lines 59-79: the staff directory.
BuildStaff ==
    /\ pc = "staff"
    /\ LET dir == LET staff_data == StaffData(app_startup_data)
                  IN  IF Raised(staff_data) THEN Raise ELSE StaffDirectory(staff_data)
       IN  IF Raised(dir)
           THEN pc' = "raised" /\ staff' = staff
           ELSE pc' = "calendar" /\ staff' = dir.ok
    /\ UNCHANGED <<app_startup_data, schedules, calendar_data, schedule_data,
                   nread, lastByDate, nByDate, nskipped>>

\* Lines 81-84: the service catalog is loaded when schedule_files is not
\* empty; with an empty list the loop below has nothing to do.
LoadCalendar(files) ==
    /\ pc = "calendar"
    /\ \/ /\ calendar_data' = calendar_data
          /\ pc' = "done"
       \/ /\ \E file \in files : calendar_data' = load_json_file(file)
          /\ pc' = "files"
    /\ UNCHANGED <<app_startup_data, staff, schedules, schedule_data,
                   nread, lastByDate, nByDate, nskipped>>

\* Lines 87-142: one iteration of the loop over schedule_files.  The list is
\* an argument of any length up to MaxFiles: whether another file follows
\* shows only when the loop takes it (ProcessFile) or ends (Return).
ProcessFile(files) ==
    /\ pc = "files"
    /\ nread < MaxFiles
    /\ \E file \in files :
         LET doc == load_json_file(file)
             day == DaySchedules(doc, staff, calendar_data)
             date == SnapshotDate(doc)
         IN  /\ schedule_data' = doc
             /\ nread' = nread + 1
             /\ IF IsSkipped(doc)
                THEN /\ pc' = "files"
                     /\ nskipped' = nskipped + 1
                     /\ UNCHANGED <<schedules, lastByDate, nByDate>>
                ELSE IF Raised(day)
                THEN /\ pc' = "raised"
                     /\ UNCHANGED <<schedules, lastByDate, nByDate, nskipped>>
                ELSE /\ pc' = "files"
                     /\ schedules' = StoreDay(schedules, date, day.ok)
                     /\ lastByDate' = Put(lastByDate, date, doc)
                     /\ nByDate' = Put(nByDate, date,
                                       IF date \in DOMAIN nByDate
                                       THEN nByDate[date] + 1 ELSE 1)
                     /\ UNCHANGED nskipped
    /\ UNCHANGED <<app_startup_data, staff, calendar_data>>

\* Line 144: schedule_files is exhausted.
Return ==
    /\ pc = "files"
    /\ pc' = "done"
    /\ UNCHANGED <<app_startup_data, staff, schedules, calendar_data, schedule_data,
                   nread, lastByDate, nByDate, nskipped>>

Next ==
    \/ BuildStaff
    \/ LoadCalendar(CalendarFiles)
    \/ ProcessFile(ScheduleFiles)
    \/ Return

Spec == Init /\ [][Next]_vars

-----------------------------------------------------------------------------
(* Vocabulary of the properties *)

Registry == StaffData(app_startup_data)

\* The staff ids whose registry record carries serviceProvider: true.
ProviderIds ==
    {k \in Keys(Registry) :
        LET info == Get(Registry, k, None)
        IN  /\ "serviceProvider" \in Keys(info)
            /\ Get(info, "serviceProvider", None) = B(TRUE)}

\* The staff directory has been built and nothing raised.
StaffBuilt == pc \in {"calendar", "files", "done"}

\* The last loop iteration aggregated the snapshot in schedule_data.
Aggregated == pc \in {"files", "done"} /\ Truthy(schedule_data)

\* The composite schedule's entry of that snapshot.
CurrentDay == schedules[SnapshotDate(schedule_data)]

\* The (appointment id, appointment, part) triples of a snapshot in document
\* order.
PartsOfDoc(doc) ==
    AllParts(Get(Get(doc, "appointments", EmptyDict), "byId", EmptyDict)).ok

\* The part has no staff id: the key is absent, or its value null or empty.
LacksStaff(part) ==
    \/ "staffId" \notin Keys(part)
    \/ Get(part, "staffId", None) \in {None, S("")}

\* The indices of the parts of the snapshot that name staff id s.
PartsNaming(doc, s) ==
    {i \in 1..Len(PartsOfDoc(doc)) :
        LET part == PartsOfDoc(doc)[i].part
        IN  ~LacksStaff(part) /\ PyStr(Get(part, "staffId", None)) = s}

-----------------------------------------------------------------------------
(* C1 *)

\* C1: the key set of result['staff'] is exactly the set of registry ids whose
\* serviceProvider flag is true; entries whose flag is false or missing are
\* left out.
C1_StaffIsProviders == StaffBuilt => DOMAIN staff = ProviderIds

\* A registry with a flagged entry and an entry without the flag.
C1_Witness ==
    /\ StaffBuilt
    /\ DOMAIN staff = {"1"}
    /\ "serviceProvider" \notin Keys(Get(Registry, "2", None))

-----------------------------------------------------------------------------
(* C3 *)

\* C3: nothing raises, and a staff member's appointment list holds one record
\* per part that names the staff member; parts whose staff id is absent,
\* null or empty add no record to any list.
C3_NoStaffNoRecord ==
    /\ pc # "raised"
    /\ Aggregated =>
         \A s \in DOMAIN staff :
            Len(CurrentDay[s].appointments) = Cardinality(PartsNaming(schedule_data, s))

\* A snapshot with parts lacking a staff id in appointments whose other parts
\* were recorded.
C3_Witness ==
    /\ Aggregated
    /\ \E i \in 1..Len(PartsOfDoc(schedule_data)) :
          "staffId" \notin Keys(PartsOfDoc(schedule_data)[i].part)
    /\ \E i \in 1..Len(PartsOfDoc(schedule_data)) :
          Get(PartsOfDoc(schedule_data)[i].part, "staffId", S("x")) = None
    /\ \E i \in 1..Len(PartsOfDoc(schedule_data)) :
          Get(PartsOfDoc(schedule_data)[i].part, "staffId", S("x")) = S("")
    /\ "1" \in DOMAIN staff
    /\ Len(CurrentDay["1"].appointments) = 3

-----------------------------------------------------------------------------
(* C4 *)

\* What aggregating the one snapshot doc puts under its date.
AloneResult(doc) == DaySchedules(doc, staff, calendar_data).ok

\* C4: the composite schedule has one entry per date of a processed snapshot,
\* and the entry equals the aggregation of the last snapshot processed under
\* that date alone, whatever was processed before it.
C4_LastSnapshotWins ==
    /\ DOMAIN schedules = DOMAIN lastByDate
    /\ \A d \in DOMAIN schedules : schedules[d] = AloneResult(lastByDate[d])

\* Two snapshots of D1 and one of D2 were processed; the first of D1 had
\* shifts and appointments for staff "1", the last one has none.
C4_Witness ==
    /\ pc = "done"
    /\ DOMAIN nByDate = {S(D1), S(D2)}
    /\ nByDate[S(D1)] = 2
    /\ "1" \in DOMAIN staff
    /\ schedules[S(D1)]["1"] = [shifts |-> <<>>, appointments |-> <<>>]
    /\ schedules[S(D2)]["1"].appointments # <<>>

-----------------------------------------------------------------------------
(* C6 *)

\* C6: under every date the inner map is keyed by exactly the service-provider
\* staff ids, each of them a key of the staff map.
C6_InnerKeysAreProviders ==
    \A d \in DOMAIN schedules :
        /\ DOMAIN schedules[d] = ProviderIds
        /\ DOMAIN schedules[d] = DOMAIN staff

\* Two dates, a provider and a non-provider; under one date the provider has
\* neither shifts nor appointments.
C6_Witness ==
    /\ pc = "done"
    /\ Cardinality(DOMAIN schedules) = 2
    /\ DOMAIN staff = {"2"}
    /\ Keys(Registry) = {"1", "2"}
    /\ \E d \in DOMAIN schedules :
          schedules[d]["2"] = [shifts |-> <<>>, appointments |-> <<>>]
    /\ \E d \in DOMAIN schedules : schedules[d]["2"].shifts # <<>>

-----------------------------------------------------------------------------
(* C8 *)

\* The catalog's mapping from service id to service record; empty when the
\* catalog did not load.
CatalogServices ==
    IF "services" \in Keys(calendar_data)
    THEN Get(Get(calendar_data, "services", None), "servicesById", EmptyDict)
    ELSE EmptyDict

\* The service name the catalog gives a part.
ExpectedService(part) ==
    LET id == PyStr(Get(part, "serviceId", S("")))
    IN  IF id \in Keys(CatalogServices)
        THEN Get(Get(CatalogServices, id, None), "name", None)
        ELSE S("Unknown Service")

\* C8: the records of a staff member carry, part for part, the catalog name of
\* the part's service when the catalog has the service id, and "Unknown
\* Service" when it has not or did not load.
C8_ServiceNames ==
    Aggregated =>
        \A s \in DOMAIN staff :
            LET recs == CurrentDay[s].appointments
                parts == PartsOfDoc(schedule_data)
                mine == PartsNaming(schedule_data, s)
                Views == {<<recs[i].start, recs[i].end, recs[i].service>> : i \in 1..Len(recs)}
                    \cup {<<format_time(Get(parts[j].part, "startAtLocal", None)),
                            format_time(Get(parts[j].part, "endAtLocal", None)),
                            ExpectedService(parts[j].part)>> : j \in mine}
            IN  \A v \in Views :
                    Cardinality({i \in 1..Len(recs) :
                        <<recs[i].start, recs[i].end, recs[i].service>> = v})
                    = Cardinality({j \in mine :
                        <<format_time(Get(parts[j].part, "startAtLocal", None)),
                          format_time(Get(parts[j].part, "endAtLocal", None)),
                          ExpectedService(parts[j].part)>> = v})

\* With the catalog loaded, one record names a catalog service and another,
\* whose service id the catalog lacks, the sentinel.
C8_Witness ==
    /\ Aggregated
    /\ calendar_data = Catalog
    /\ DOMAIN staff = {"1", "2"}
    /\ \E i \in 1..Len(CurrentDay["1"].appointments) :
          CurrentDay["1"].appointments[i].service = S("Facial")
    /\ \E i \in 1..Len(CurrentDay["2"].appointments) :
          CurrentDay["2"].appointments[i].service = S("Unknown Service")

\* The catalog did not load and a record carries the sentinel.
C8_WitnessNoCatalog ==
    /\ Aggregated
    /\ calendar_data = EmptyDict
    /\ \E s \in DOMAIN staff : \E i \in 1..Len(CurrentDay[s].appointments) :
          CurrentDay[s].appointments[i].service = S("Unknown Service")

-----------------------------------------------------------------------------
(* C9 *)

\* The raw shifts stored for staff id s under the snapshot's own date.
StoredShifts(doc, s) ==
    LET mapping == Get(doc, "shiftsByStaffIdAndDay", EmptyDict)
        date == SnapshotDate(doc)
    IN  IF s \in Keys(mapping) /\ IsStr(date) /\ date.str \in Keys(Get(mapping, s, None))
        THEN Get(Get(mapping, s, None), date.str, None).arr
        ELSE <<>>

\* C9: a staff member's shift list holds the shifts stored under the
\* snapshot's own date, in their order, with start and end formatted; it is
\* empty when the staff member has no mapping or none under that date.
C9_ShiftsOfOwnDate ==
    /\ pc # "raised"
    /\ Aggregated =>
        \A s \in DOMAIN staff :
            LET out == CurrentDay[s].shifts
                raw == StoredShifts(schedule_data, s)
            IN  /\ Len(out) = Len(raw)
                /\ \A i \in 1..Len(raw) :
                      /\ out[i].start = format_time(Get(raw[i], "startAtLocal", None))
                      /\ out[i].end = format_time(Get(raw[i], "endAtLocal", None))
                      /\ out[i].location_id = Get(raw[i], "locationId", N(1))

\* Staff "1" has shifts under another date only, staff "2" under the
\* snapshot's date.
C9_Witness ==
    /\ Aggregated
    /\ SnapshotDate(schedule_data) = S(D2)
    /\ DOMAIN staff = {"1", "2"}
    /\ "1" \in Keys(Get(schedule_data, "shiftsByStaffIdAndDay", EmptyDict))
    /\ CurrentDay["1"].shifts = <<>>
    /\ CurrentDay["2"].shifts =
          <<[start |-> S("08:15"), end |-> S("17:00"), location_id |-> N(3)]>>

-----------------------------------------------------------------------------
(* C10 *)

\* C10: an iteration whose file does not load, or loads as an empty document,
\* changes neither the staff map nor the composite schedule and leaves the
\* loop running.
C10_UnloadableSkipped ==
    [][(pc = "files" /\ nread' = nread + 1 /\ ~Truthy(schedule_data'))
        => (pc' = "files" /\ staff' = staff /\ schedules' = schedules)]_vars

\* One unloadable file and two snapshots, the last of them after the
\* unloadable one, were consumed.
C10_Witness ==
    /\ pc = "done"
    /\ nskipped = 1
    /\ nread = 3
    /\ Truthy(schedule_data)
    /\ Cardinality(DOMAIN schedules) = 2

-----------------------------------------------------------------------------
(* C2 *)

\* The appointments of a snapshot: (id, appointment) pairs.
AppointmentsOfDoc(doc) ==
    Get(Get(doc, "appointments", EmptyDict), "byId", EmptyDict).obj

PartsOfAppointment(appointment) ==
    Get(appointment, "appointmentParts", EmptyList).arr

\* Every part names a staff id, no two the same, each a service provider.
DistinctProviderParts(appointment) ==
    LET parts == PartsOfAppointment(appointment)
        Id(j) == PyStr(Get(parts[j], "staffId", None))
    IN  /\ Len(parts) > 0
        /\ \A j \in 1..Len(parts) : ~LacksStaff(parts[j]) /\ Id(j) \in ProviderIds
        /\ \A j, k \in 1..Len(parts) : j # k => Id(j) # Id(k)

\* The record refers to the appointment: its id, price and status.
RefersTo(rec, id, appointment) ==
    /\ "appointmentId" \in DOMAIN rec
    /\ rec.appointmentId = S(id)
    /\ rec.price = Get(appointment, "totalPrice", None)
    /\ rec.status = Get(appointment, "workflowStatus", None)

\* C2: an appointment of N parts with distinct service-provider staff ids
\* yields N records, one in the list of each of these staff ids and none
\* elsewhere, each carrying the appointment's id, price and status.
C2_OneRecordPerStaff ==
    Aggregated =>
        \A a \in 1..Len(AppointmentsOfDoc(schedule_data)) :
            LET id == AppointmentsOfDoc(schedule_data)[a][1]
                appointment == AppointmentsOfDoc(schedule_data)[a][2]
                parts == PartsOfAppointment(appointment)
                named == {PyStr(Get(parts[j], "staffId", None)) : j \in 1..Len(parts)}
                Count(s) == Cardinality({i \in 1..Len(CurrentDay[s].appointments) :
                                RefersTo(CurrentDay[s].appointments[i], id, appointment)})
            IN  DistinctProviderParts(appointment) =>
                    /\ \A s \in named : Count(s) = 1
                    /\ \A s \in DOMAIN staff \ named : Count(s) = 0

-----------------------------------------------------------------------------
(* C5 *)

\* The records of staff id s in the order the claim describes: the parts
\* naming s, sorted stably by the raw startAtLocal, then turned into records.
RecordsByRawStart(doc, s) ==
    LET parts == PartsOfDoc(doc)
        mine == SelectSeq([i \in 1..Len(parts) |-> i], LAMBDA i : i \in PartsNaming(doc, s))
        keyed == [k \in 1..Len(mine) |->
                    [start |-> Get(parts[mine[k]].part, "startAtLocal", S("")),
                     at |-> mine[k]]]
        sorted == StableSort(keyed)
    IN  [k \in 1..Len(sorted) |->
            AppointmentRecord(parts[sorted[k].at].appointment, parts[sorted[k].at].part,
                              calendar_data)]

\* C5: every appointment list is in ascending order of the parts' raw
\* startAtLocal strings, equal strings in encounter order.
C5_SortedByRawStart ==
    Aggregated =>
        \A s \in DOMAIN staff :
            CurrentDay[s].appointments = RecordsByRawStart(schedule_data, s)

-----------------------------------------------------------------------------
(* C7: documents with malformed fields *)

\* Staff "1" with a null first name and a null email, or well formed; staff
\* "2" well formed, a provider or not.
RegistriesMalformed ==
    {O(<<<<"1", r1>>, <<"2", r2>>>>) :
        r1 \in {StaffRecord(<<<<"serviceProvider", B(TRUE)>>>>, None, S("Lee"),
                            <<<<"email", None>>>>),
                StaffRecord(<<<<"serviceProvider", B(TRUE)>>>>, S("Sasha"), None,
                            <<<<"email", S("sasha@example.com")>>>>)},
        r2 \in {StaffRecord(<<<<"serviceProvider", B(TRUE)>>>>, S("Kim"), S("Lee"), <<>>),
                StaffRecord(<<<<"serviceProvider", B(FALSE)>>>>, S("Kim"), None, <<>>),
                StaffRecord(<<>>, S("Kim"), S("Lee"), <<>>)}}

PartOfOne(start) ==
    O(<<<<"staffId", N(1)>>, <<"startAtLocal", start>>,
        <<"endAtLocal", S("2025-07-26T10:30:00")>>, <<"serviceId", N(3)>>>>)

OneAppointment(fields) ==
    WithAppointments(O(<<<<"a1", O(fields \o <<<<"totalPrice", S("60.00")>>>>)>>>>))

\* Snapshots of D1 with one malformed field each, and well-formed ones.
ScheduleFilesMalformed ==
    {NotFound,
     Snapshot(<<<<"date", S(D2)>>>>, WithShifts(ShiftsA), WithAppointments(AppointmentsTwoStaff)),
     \* client: null
     Snapshot(<<<<"date", S(D1)>>>>, <<>>,
        OneAppointment(<<<<"client", None>>,
            <<"appointmentParts", A(<<PartOfOne(S("2025-07-26T09:00:00"))>>)>>>>)),
     \* appointmentParts: null
     Snapshot(<<<<"date", S(D1)>>>>, <<>>,
        OneAppointment(<<<<"appointmentParts", None>>>>)),
     \* a shifts entry that is a string
     Snapshot(<<<<"date", S(D1)>>>>,
        WithShifts(O(<<<<"1", O(<<<<D1, A(<<S("09:00-17:00")>>)>>>>)>>>>)), <<>>),
     \* startAtLocal: null in the only part
     Snapshot(<<<<"date", S(D1)>>>>, <<>>,
        OneAppointment(<<<<"appointmentParts", A(<<PartOfOne(None)>>)>>>>)),
     \* startAtLocal: null in one of two parts
     Snapshot(<<<<"date", S(D1)>>>>, <<>>,
        OneAppointment(<<<<"appointmentParts",
            A(<<PartOfOne(None), PartOfOne(S("2025-07-26T09:00:00"))>>)>>>>))}

InitMalformed ==
    /\ app_startup_data \in {AppDoc(r) : r \in RegistriesMalformed}
    /\ staff = <<>>
    /\ schedules = <<>>
    /\ calendar_data = EmptyDict
    /\ schedule_data = EmptyDict
    /\ nread = 0
    /\ pc = "staff"
    /\ lastByDate = <<>>
    /\ nByDate = <<>>
    /\ nskipped = 0

NextMalformed ==
    \/ BuildStaff
    \/ LoadCalendar(CalendarFiles)
    \/ ProcessFile(ScheduleFilesMalformed)
    \/ Return

SpecMalformed == InitMalformed /\ [][NextMalformed]_vars

\* No field of the record is null.
NoNullField(rec) == \A f \in DOMAIN rec : ~IsNone(rec[f])

\* C7: whatever field is missing, null or misshapen, build_comprehensive_data
\* does not raise, and the output fields hold a string: the documented
\* default where the input field is null (first name "Unknown", email
\* "No email"), never null.
C7_MalformedNeverAborts ==
    /\ pc # "raised"
    /\ StaffBuilt =>
        \A s \in DOMAIN staff :
            LET info == Get(Registry, s, None)
            IN  /\ IsStr(staff[s].email)
                /\ Get(info, "email", None) = None => staff[s].email = S("No email")
                /\ Get(info, "firstName", None) = None =>
                      staff[s].name = S(JoinStrip("Unknown",
                                          PyStr(OrEmpty(Get(info, "lastName", S(""))))))
    /\ \A d \in DOMAIN schedules : \A s \in DOMAIN schedules[d] :
          /\ \A i \in 1..Len(schedules[d][s].shifts) : NoNullField(schedules[d][s].shifts[i])
          /\ \A i \in 1..Len(schedules[d][s].appointments) :
                NoNullField(schedules[d][s].appointments[i])

====
